---- MODULE Spec2Model ----
(***************************************************************************)
(* Model of GovernmentSystemIntegrator                                     *)
(* (Desktop/Unations /Government App - CODING/government-integrations.py): *)
(* verify_business_across_systems fans out to the selected government      *)
(* systems through a TTL cache, merges the answers, checks them for        *)
(* inconsistencies, scores the outcome and stores it.                      *)
(*                                                                         *)
(* Conventions.  Python strings that the code inspects character by        *)
(* character (business numbers, address parts) are sequences of one        *)
(* character strings.  A dict is a function whose DOMAIN is its key set.   *)
(* None is the empty sequence and a present optional value v is <<v>>.     *)
(* Floats of the score are kept in hundredths (1.0 is 100).  Time is in    *)
(* seconds since the integrator was built.                                 *)
(***************************************************************************)
EXTENDS Integers, Sequences, FiniteSets, Bags, TLC

VARIABLES now, cache, run, integration_logs, federal_system_data, db_faults,
          today, pattern_detections, detect

vars == <<now, cache, run, integration_logs, federal_system_data, db_faults,
          today, pattern_detections, detect>>

(* The state of GovernmentSystemIntegrator and of its tables, and the state of
   PatternDetectionAnalytics. *)
integrator_vars == <<now, cache, run, integration_logs, federal_system_data, db_faults>>

analytics_vars == <<today, pattern_detections, detect>>

(***************************************************************************)
(* Bounds of the model.                                                    *)
(***************************************************************************)
MaxTicks == 2
TickStep == 1800
MaxDbFaults == 1
MaxFlags == 10
MaxDays == 2
MaxIdLen == 2
DayStep == 20

RunIds == {1, 2, 3}

BatchIds == {1, 2, 3}

(***************************************************************************)
(* SystemCode and SystemEndpoint.                                          *)
(***************************************************************************)
SystemCode == {"CRA", "ISED", "ISC", "PSPC", "ON_ONBIS", "QC_REQ",
               "BC_REG", "AB_REG", "CCAB", "SUPPLY_NATION"}

SystemValue(system) ==
    CASE system = "CRA" -> "cra"
      [] system = "ISED" -> "ised"
      [] system = "ISC" -> "isc"
      [] system = "PSPC" -> "pspc"
      [] system = "ON_ONBIS" -> "on_onbis"
      [] system = "QC_REQ" -> "qc_req"
      [] system = "BC_REG" -> "bc_reg"
      [] system = "AB_REG" -> "ab_reg"
      [] system = "CCAB" -> "ccab"
      [] system = "SUPPLY_NATION" -> "supply_nation"

cache_ttl == 3600

retry_attempts == 3

endpoints == [system \in {"CRA", "ISED", "ISC", "PSPC", "ON_ONBIS", "QC_REQ"} |->
                 [auth_type |-> CASE system \in {"CRA", "PSPC"} -> "oauth2"
                                  [] system = "ISC" -> "certificate"
                                  [] OTHER -> "api_key",
                  cache_ttl |-> cache_ttl]]

(***************************************************************************)
(* Python helpers.                                                         *)
(***************************************************************************)
None == <<>>

Get(dict, key, default) == IF key \in DOMAIN dict THEN dict[key] ELSE default

Put(dict, key, value) ==
    [k \in DOMAIN dict \cup {key} |-> IF k = key THEN value ELSE dict[k]]

startswith(str, ch) == Len(str) > 0 /\ str[1] = ch

Max(a, b) == IF a >= b THEN a ELSE b
Min(a, b) == IF a <= b THEN a ELSE b

isoformat(t) == <<"utc", t>>


Truthy(value) == DOMAIN value # {}

Or(a, b) == IF Truthy(a) THEN a ELSE b

Range(list) == {list[i] : i \in DOMAIN list}

LowerToUpper == [a |-> "A", b |-> "B", c |-> "C", d |-> "D", e |-> "E", i |-> "I",
                 k |-> "K", m |-> "M", n |-> "N", o |-> "O", s |-> "S", t |-> "T"]

upper(str) ==
    [i \in DOMAIN str |-> IF str[i] \in DOMAIN LowerToUpper
                          THEN LowerToUpper[str[i]] ELSE str[i]]

IsNotSpace(ch) == ch # " "

replace_spaces(str) == SelectSeq(str, IsNotSpace)

(***************************************************************************)
(* The answers of the government systems.  Each adapter (_verify_cra,      *)
(* _verify_ised, _verify_isc, _verify_pspc, _verify_provincial) returns a  *)
(* dict whose 'system' entry is its own label; the fields kept here are    *)
(* the ones _check_data_inconsistencies reads.                             *)
(***************************************************************************)
Address(number, street, postal) ==
    [streetNumber |-> number, streetName |-> street, city |-> <<"O">>,
     province |-> <<"O", "N">>, postalCode |-> postal]

MainSt == Address(<<"1">>, <<"M", "a", "i", "n">>, <<"K", "1", " ", "A">>)
MainStUpper == Address(<<"1">>, <<"M", "A", "I", "N">>, <<"K", "1", "A">>)
OakSt == Address(<<"1">>, <<"O", "a", "k">>, <<"K", "1", "A">>)

_verify_cra(status, address) ==
    [system |-> "CRA", business_status |-> status, physical_address |-> address]

_verify_ised(status, office, directors) ==
    [system |-> "ISED", corporate_status |-> status, registered_office |-> office,
     directors |-> directors]

_verify_isc(percentage, owners) ==
    [system |-> "ISC", indigenous_ownership_percentage |-> percentage,
     verified_owners |-> owners]

_verify_pspc(status) == [system |-> "PSPC", supplier_status |-> status]

_verify_provincial(system, status) ==
    IF system = "ON_ONBIS"
    THEN [system |-> "ON_ONBIS", business_status |-> status]
    ELSE [system |-> "QC_REQ", statut |-> status]

(***************************************************************************)
(* Inputs of the model: the identifiers asked for, the answers a system    *)
(* can give, the exceptions a call can end with.                           *)
(***************************************************************************)
BusinessNumbers == {<<"1", "0">>, <<"9", "0">>}

Responses(system) ==
    CASE system = "CRA" -> {_verify_cra(<<"active">>, MainSt)}
      [] system = "ISED" ->
            {_verify_ised(<<"active">>, MainStUpper, <<"d1", "d2", "d3">>),
             _verify_ised(<<"dissolved">>, OakSt, <<"d1", "d2", "d3">>)}
      [] system = "ISC" ->
            {_verify_isc(<<51>>, <<"d1">>), _verify_isc(None, <<"d1">>)}
      [] system = "PSPC" -> {_verify_pspc(<<"registered">>)}
      [] system = "ON_ONBIS" -> {_verify_provincial(system, <<"inactive">>)}
      [] system = "QC_REQ" -> {_verify_provincial(system, <<"immatriculée">>)}

AdapterErrors == {"TimeoutError"}


(***************************************************************************)
(* Pure methods of GovernmentSystemIntegrator.                             *)
(***************************************************************************)
(* _determine_relevant_systems testing '1' in business_number, '3' in
   business_number instead of startswith. *)
SystemsByAnyDigit(business_number) ==
    LET systems == <<"CRA", "ISED", "ISC", "PSPC">>
    IN  IF "1" \in Range(business_number) THEN Append(systems, "ON_ONBIS")
        ELSE IF "3" \in Range(business_number) THEN Append(systems, "QC_REQ")
        ELSE systems

_determine_relevant_systems(business_number) ==
    LET systems == <<"CRA", "ISED", "ISC", "PSPC">>
    IN  IF startswith(business_number, "1") THEN Append(systems, "ON_ONBIS")
        ELSE IF startswith(business_number, "3") THEN Append(systems, "QC_REQ")
        ELSE systems

(* _merge_verification_data as consolidated.update(new_data): no section per system. *)
MergeFlat(consolidated, new_data) ==
    [key \in DOMAIN consolidated \cup DOMAIN new_data |->
        IF key \in DOMAIN new_data THEN new_data[key] ELSE consolidated[key]]

_merge_verification_data(consolidated, new_data) ==
    LET system == new_data["system"]
        section == IF system \in DOMAIN consolidated THEN consolidated[system]
                   ELSE <<>>
        merged == [key \in (DOMAIN section \cup DOMAIN new_data) \ {"system"} |->
                      IF key \in DOMAIN new_data THEN new_data[key] ELSE section[key]]
    IN  Put(consolidated, system, merged)

_normalize_address(address) ==
    Get(address, "streetNumber", <<>>) \o <<"|">>
    \o upper(Get(address, "streetName", <<>>)) \o <<"|">>
    \o upper(Get(address, "city", <<>>)) \o <<"|">>
    \o upper(Get(address, "province", <<>>)) \o <<"|">>
    \o replace_spaces(upper(Get(address, "postalCode", <<>>)))

(* AddressFlags comparing the addresses as reported, without _normalize_address. *)
AddressFlagsRaw(consolidated, new_data, system) ==
    IF "CRA" \in DOMAIN consolidated /\ system = "ISED"
    THEN LET cra_address == Get(consolidated["CRA"], "physical_address", <<>>)
             ised_address == Get(new_data, "registered_office", <<>>)
         IN  IF Truthy(cra_address) /\ Truthy(ised_address) /\ cra_address # ised_address
             THEN << <<"Inconsistent addresses between CRA and ISED records">> >>
             ELSE <<>>
    ELSE <<>>

AddressFlags(consolidated, new_data, system) ==
    IF "CRA" \in DOMAIN consolidated /\ system = "ISED"
    THEN LET cra_address == Get(consolidated["CRA"], "physical_address", <<>>)
             ised_address == Get(new_data, "registered_office", <<>>)
         IN  IF /\ Truthy(cra_address) /\ Truthy(ised_address)
                /\ _normalize_address(cra_address) # _normalize_address(ised_address)
             THEN << <<"Inconsistent addresses between CRA and ISED records">> >>
             ELSE <<>>
    ELSE <<>>

(* StatusFlags without the 'CRA' in consolidated test of line 394: a CRA record
   that is absent is taken for an active one. *)
StatusFlagsAbsentCra(consolidated, new_data) ==
    IF Get(new_data, "system", "") \in {"ISED", "ON_ONBIS", "QC_REQ"}
    THEN LET cra_status == IF "CRA" \in DOMAIN consolidated
                           THEN Get(consolidated["CRA"], "business_status", None)
                           ELSE <<"active">>
             other_status == Or(Get(new_data, "business_status", None),
                                Or(Get(new_data, "corporate_status", None),
                                   Get(new_data, "statut", None)))
         IN  IF /\ cra_status = <<"active">>
                /\ other_status \in {<<"dissolved">>, <<"inactive">>, <<"fermée">>}
             THEN << <<"Business active with CRA but ", other_status[1], " with ",
                       new_data["system"]>> >>
             ELSE <<>>
    ELSE <<>>

StatusFlags(consolidated, new_data) ==
    IF /\ "CRA" \in DOMAIN consolidated
       /\ Get(new_data, "system", "") \in {"ISED", "ON_ONBIS", "QC_REQ"}
    THEN LET cra_status == Get(consolidated["CRA"], "business_status", None)
             other_status == Or(Get(new_data, "business_status", None),
                                Or(Get(new_data, "corporate_status", None),
                                   Get(new_data, "statut", None)))
         IN  IF /\ cra_status = <<"active">>
                /\ other_status \in {<<"dissolved">>, <<"inactive">>, <<"fermée">>}
             THEN << <<"Business active with CRA but ", other_status[1], " with ",
                       new_data["system"]>> >>
             ELSE <<>>
    ELSE <<>>

(* isc_percentage >= 51 raises TypeError when the percentage is None. *)
OwnershipRaises(consolidated) ==
    /\ "ISC" \in DOMAIN consolidated /\ "ISED" \in DOMAIN consolidated
    /\ Get(consolidated["ISC"], "indigenous_ownership_percentage", <<0>>) = None

OwnershipFlags(consolidated) ==
    IF "ISC" \in DOMAIN consolidated /\ "ISED" \in DOMAIN consolidated
    THEN LET isc_percentage ==
                 Get(consolidated["ISC"], "indigenous_ownership_percentage", <<0>>)
             verified_owners == Range(Get(consolidated["ISC"], "verified_owners", <<>>))
             all_directors == Range(Get(consolidated["ISED"], "directors", <<>>))
             overlap == Cardinality(verified_owners \cap all_directors)
         IN  IF /\ isc_percentage # None
                /\ isc_percentage[1] >= 51
                /\ verified_owners # {} /\ all_directors # {}
                /\ 2 * overlap < Cardinality(all_directors)
             THEN << <<"Majority Indigenous ownership but minority Indigenous directors">> >>
             ELSE <<>>
    ELSE <<>>

_check_data_inconsistencies(consolidated, new_data, system) ==
    [raised |-> OwnershipRaises(consolidated),
     red_flags |-> AddressFlags(consolidated, new_data, system)
                   \o StatusFlags(consolidated, new_data)
                   \o OwnershipFlags(consolidated)]

(* _calculate_verification_score without the clamp of line 432. *)
ScoreUnclamped(results) ==
    100 - (4 - Len(results.systems_checked)) * 10 - Len(results.red_flags) * 15

_calculate_verification_score(results) ==
    LET expected_systems == 4
        checked_systems == Len(results.systems_checked)
        base_score == 100 - (expected_systems - checked_systems) * 10
                          - Len(results.red_flags) * 15
    IN  Max(0, Min(100, base_score))


(***************************************************************************)
(* State.                                                                  *)
(*   now                  the UTC clock read by datetime.utcnow()          *)
(*   cache                self.cache: key -> (data, cached_time)           *)
(*   run[r]               one call of verify_business_across_systems: its  *)
(*                        position, its locals and the tasks it gathers    *)
(*   integration_logs     rows of the integration_logs table (a bag)       *)
(*   federal_system_data  rows of the federal_system_data table (a set)    *)
(*   db_faults            how many db.execute calls have raised so far     *)
(*   today                CURRENT_DATE of the database, in days            *)
(*   pattern_detections   rows of the pattern_detections table (a bag)     *)
(*   detect[b]            one call of detect_phantom_partnerships          *)
(***************************************************************************)
IdleBatch == [pc |-> "idle", date |-> 0, suspicious_patterns |-> EmptyBag,
              snapshot |-> EmptyBag, result |-> EmptyBag]

IdleRun == [pc |-> "idle", business_number |-> <<>>, systems_to_check |-> <<>>,
            tasks |-> <<>>, verification_results |-> <<>>, exception |-> ""]

Init ==
    /\ now = 0
    /\ cache = <<>>
    /\ run = [r \in RunIds |-> IdleRun]
    /\ integration_logs = EmptyBag
    /\ federal_system_data = {}
    /\ db_faults = 0
    /\ today = 0
    /\ pattern_detections = EmptyBag
    /\ detect = [b \in BatchIds |-> IdleBatch]

CacheKey(system, business_number) == <<SystemValue(system), business_number>>

(* CacheHit with the comparison of line 153 written <= instead of <. *)
CacheHitAtExpiry(system, business_number) ==
    LET cache_key == CacheKey(system, business_number)
    IN  /\ cache_key \in DOMAIN cache
        /\ now - cache[cache_key].cached_time <= endpoints[system].cache_ttl

(* CacheHit without the age test of line 153. *)
CacheHitAnyAge(system, business_number) ==
    CacheKey(system, business_number) \in DOMAIN cache

(* Lines 151-153: the entry is used only while younger than cache_ttl. *)
CacheHit(system, business_number) ==
    LET cache_key == CacheKey(system, business_number)
    IN  /\ cache_key \in DOMAIN cache
        /\ now - cache[cache_key].cached_time < endpoints[system].cache_ttl

(***************************************************************************)
(* A task of _verify_with_system.  kind is "pending" while the network     *)
(* call is awaited, then "ok" (the coroutine returned data) or "exception" *)
(* (it raised error).  network_calls counts the session requests issued,   *)
(* stored tells that line 175 ran, started_at is the clock at the call.    *)
(***************************************************************************)
(* The calls awaited one after the other instead of gathered: only the call of
   the first system is sent when the run starts. *)
FirstStepInTurn(system, business_number) ==
    IF system = "CRA"
    THEN [kind |-> "pending", data |-> <<>>, error |-> "", from_cache |-> FALSE,
          network_calls |-> 1, stored |-> FALSE, started_at |-> now]
    ELSE [kind |-> "pending", data |-> <<>>, error |-> "", from_cache |-> FALSE,
          network_calls |-> 0, stored |-> FALSE, started_at |-> now]

FirstStep(system, business_number) ==
    IF system \notin DOMAIN endpoints
    THEN (* never cached; self.endpoints[system] of line 157 raises, before the try *)
         [kind |-> "exception", data |-> <<>>, error |-> "KeyError", from_cache |-> FALSE,
          network_calls |-> 0, stored |-> FALSE, started_at |-> now]
    ELSE IF CacheHit(system, business_number)
    THEN [kind |-> "ok", data |-> cache[CacheKey(system, business_number)].cached_data,
          error |-> "", from_cache |-> TRUE, network_calls |-> 0, stored |-> FALSE,
          started_at |-> now]
    ELSE [kind |-> "pending", data |-> <<>>, error |-> "", from_cache |-> FALSE,
          network_calls |-> 1, stored |-> FALSE, started_at |-> now]

(***************************************************************************)
(* verify_business_across_systems, lines 101-118: the result dict, the     *)
(* systems to check and one task per system.  The tasks gather() creates   *)
(* run their first step (cache lookup, headers, request sent) back to back *)
(* on the event loop, so the step is taken as one.                         *)
(***************************************************************************)
StartRun(r, business_number) ==
    /\ run[r].pc = "idle"
    /\ LET systems_to_check == _determine_relevant_systems(business_number)
       IN  run' = [run EXCEPT ![r] =
                [pc |-> "gather",
                 business_number |-> business_number,
                 systems_to_check |-> systems_to_check,
                 tasks |-> [system \in Range(systems_to_check) |->
                               FirstStep(system, business_number)],
                 verification_results |->
                     [business_number |-> business_number,
                      verification_timestamp |-> isoformat(now),
                      systems_checked |-> <<>>,
                      consolidated_data |-> <<>>,
                      red_flags |-> <<>>,
                      verification_score |-> 0],
                 exception |-> ""]]
    /\ UNCHANGED <<now, cache, integration_logs, federal_system_data, db_faults>>
    /\ UNCHANGED analytics_vars

(***************************************************************************)
(* _verify_with_system called on its own for one (system, identifier): the *)
(* part of a verify run that touches that cache key.                       *)
(***************************************************************************)
CallVerifyWithSystem(r, business_number, system) ==
    /\ run[r].pc = "idle"
    /\ run' = [run EXCEPT ![r] =
           [pc |-> "call",
            business_number |-> business_number,
            systems_to_check |-> <<system>>,
            tasks |-> [s \in {system} |-> FirstStep(system, business_number)],
            verification_results |-> <<>>,
            exception |-> ""]]
    /\ UNCHANGED <<now, cache, integration_logs, federal_system_data, db_faults>>
    /\ UNCHANGED analytics_vars

(* _log_integration: one row of integration_logs (the two timestamp columns,
   which nothing reads back, are left out). *)
LogRow(system, business_number, success, error) ==
    [business_id |-> business_number, system_code |-> SystemValue(system),
     action_type |-> "verify", success |-> success, error_message |-> error]

Logged(row) == integration_logs (+) SetToBag({row})

(***************************************************************************)
(* _verify_with_system, lines 160-184, from the end of the network call to *)
(* the end of the task.  log_ok and relog_ok tell whether the db.execute   *)
(* of the first and of the second _log_integration call succeeds.          *)
(***************************************************************************)
(* TaskDone acting on retry_attempts: a call that failed is sent again. *)
TaskDoneRetried(r, system, kind, data, error, stored) ==
    IF kind = "exception" /\ run[r].tasks[system].network_calls < retry_attempts
    THEN [run EXCEPT ![r].tasks[system].network_calls = @ + 1]
    ELSE [run EXCEPT ![r].tasks[system] =
             [kind |-> kind, data |-> data, error |-> error, from_cache |-> FALSE,
              network_calls |-> @.network_calls, stored |-> stored,
              started_at |-> @.started_at]]

TaskDone(r, system, kind, data, error, stored) ==
    [run EXCEPT ![r].tasks[system] =
        [kind |-> kind, data |-> data, error |-> error, from_cache |-> FALSE,
         network_calls |-> @.network_calls, stored |-> stored,
         started_at |-> @.started_at]]

Awaiting(r, system) ==
    /\ run[r].pc \in {"gather", "call"}
    /\ system \in DOMAIN run[r].tasks
    /\ run[r].tasks[system].kind = "pending"

(* The adapter returned data: line 175 caches it, line 178 logs success. *)
FetchReturns(r, system, data, log_ok, relog_ok) ==
    LET bn == run[r].business_number
    IN  /\ Awaiting(r, system)
        /\ cache' = Put(cache, CacheKey(system, bn),
                        [cached_data |-> data, cached_time |-> now])
        /\ IF log_ok
           THEN /\ integration_logs' = Logged(LogRow(system, bn, TRUE, ""))
                /\ run' = TaskDone(r, system, "ok", data, "", TRUE)
                /\ db_faults' = db_faults
           ELSE (* the log insert raised inside the try: lines 182-184 *)
                /\ integration_logs' =
                       IF relog_ok
                       THEN Logged(LogRow(system, bn, FALSE, "DatabaseError"))
                       ELSE integration_logs
                /\ run' = TaskDone(r, system, "exception", <<>>, "DatabaseError", TRUE)
                /\ db_faults' = db_faults + (IF relog_ok THEN 1 ELSE 2)
        /\ UNCHANGED <<now, federal_system_data>>
        /\ UNCHANGED analytics_vars

(* The adapter raised: lines 182-184 log the failure and re-raise. *)
FetchRaises(r, system, error, log_ok) ==
    LET bn == run[r].business_number
    IN  /\ Awaiting(r, system)
        /\ IF log_ok
           THEN /\ integration_logs' = Logged(LogRow(system, bn, FALSE, error))
                /\ run' = TaskDone(r, system, "exception", <<>>, error, FALSE)
                /\ db_faults' = db_faults
           ELSE /\ integration_logs' = integration_logs
                /\ run' = TaskDone(r, system, "exception", <<>>, "DatabaseError", FALSE)
                /\ db_faults' = db_faults + 1
        /\ UNCHANGED <<now, cache, federal_system_data>>
        /\ UNCHANGED analytics_vars

(***************************************************************************)
(* verify_business_across_systems, lines 120-139: the loop over            *)
(* zip(systems_to_check, results) and the score.  No await: one step.      *)
(***************************************************************************)
FailureFlag(system, error) ==
    <<"Failed to verify with ", SystemValue(system), ": ", error>>

(* The results taken as they complete (asyncio.as_completed): the tasks served
   from the cache end in their first step, before any network call returns. *)
CompletionOrder(systems_to_check, tasks) ==
    LET Cached(system) == tasks[system].from_cache
        Fetched(system) == ~tasks[system].from_cache
    IN  SelectSeq(systems_to_check, Cached) \o SelectSeq(systems_to_check, Fetched)

(* gather() returns the results in the order of systems_to_check. *)
GatherOrder(systems_to_check, tasks) == systems_to_check

RECURSIVE ProcessResults(_, _, _, _)
ProcessResults(i, order, tasks, results) ==
    IF i > Len(order) THEN [raised |-> FALSE, results |-> results]
    ELSE LET system == order[i]
             result == tasks[system]
         IN  IF result.kind = "exception"
             THEN ProcessResults(i + 1, order, tasks,
                      [results EXCEPT !.red_flags =
                           Append(@, FailureFlag(system, result.error))])
             ELSE LET consolidated ==
                          _merge_verification_data(results.consolidated_data, result.data)
                      inconsistencies ==
                          _check_data_inconsistencies(consolidated, result.data, system)
                      merged == [results EXCEPT
                                    !.systems_checked = Append(@, SystemValue(system)),
                                    !.consolidated_data = consolidated]
                  IN  IF inconsistencies.raised
                      THEN [raised |-> TRUE, results |-> merged]
                      ELSE ProcessResults(i + 1, order, tasks,
                               [merged EXCEPT !.red_flags =
                                    @ \o inconsistencies.red_flags])

AllTasksDone(r) == \A system \in DOMAIN run[r].tasks : run[r].tasks[system].kind # "pending"

Process(r) ==
    /\ run[r].pc = "gather"
    /\ AllTasksDone(r)
    /\ LET processed == ProcessResults(1, GatherOrder(run[r].systems_to_check, run[r].tasks),
                                       run[r].tasks, run[r].verification_results)
       IN  run' = [run EXCEPT ![r] =
               IF processed.raised
               THEN [@ EXCEPT !.pc = "raised", !.exception = "TypeError",
                              !.verification_results = processed.results]
               ELSE [@ EXCEPT !.pc = "store",
                              !.verification_results =
                                  [processed.results EXCEPT !.verification_score =
                                       _calculate_verification_score(processed.results)]]]
    /\ UNCHANGED <<now, cache, integration_logs, federal_system_data, db_faults>>
    /\ UNCHANGED analytics_vars

(***************************************************************************)
(* _store_verification_results, then the return of line 144.  written is   *)
(* the number of upserts that succeed: all of them, or the ones before the *)
(* db.execute that raises.                                                 *)
(***************************************************************************)
json_dumps(value) == <<"json", value>>

sha256(text) == <<"sha256", text>>

SnapshotRow(business_number, results, system) ==
    [business_id |-> business_number,
     system_code |-> system,
     external_id |-> business_number,
     data_snapshot |-> json_dumps(Get(results.consolidated_data, system, <<>>)),
     data_hash |-> sha256(json_dumps(results)),
     last_sync_at |-> now,
     sync_status |-> "success"]

(* INSERT without the ON CONFLICT clause of lines 492-497. *)
InsertRow(table, row) == table \cup {row}

(* INSERT ... ON CONFLICT (business_id, system_code) DO UPDATE: the row of the
   same key, if there is one, is replaced. *)
Upsert(table, row) ==
    {old \in table : ~(/\ old.business_id = row.business_id
                       /\ old.system_code = row.system_code)} \cup {row}

(* The rows of lines 506-516, one db.execute for each element of systems_checked. *)
Upserts(business_number, results) ==
    [i \in DOMAIN results.systems_checked |->
        SnapshotRow(business_number, results, results.systems_checked[i])]

RECURSIVE ExecuteAll(_, _, _)
ExecuteAll(table, rows, written) ==
    IF written = 0 THEN table
    ELSE Upsert(ExecuteAll(table, rows, written - 1), rows[written])

_store_verification_results(business_number, results, written) ==
    ExecuteAll(federal_system_data, Upserts(business_number, results), written)

Store(r, written) ==
    /\ run[r].pc = "store"
    /\ written \in 0..Len(run[r].verification_results.systems_checked)
    /\ federal_system_data' =
           _store_verification_results(run[r].business_number,
                                       run[r].verification_results, written)
    /\ run' = [run EXCEPT ![r] =
           IF written = Len(run[r].verification_results.systems_checked)
           THEN [@ EXCEPT !.pc = "returned"]
           ELSE [@ EXCEPT !.pc = "raised", !.exception = "DatabaseError"]]
    /\ db_faults' = IF written = Len(run[r].verification_results.systems_checked)
                    THEN db_faults ELSE db_faults + 1
    /\ UNCHANGED <<now, cache, integration_logs>>
    /\ UNCHANGED analytics_vars

(* Time passes between the steps of the event loop. *)
Tick ==
    /\ now < MaxTicks * TickStep
    /\ now' = now + TickStep
    /\ UNCHANGED <<cache, run, integration_logs, federal_system_data, db_faults>>
    /\ UNCHANGED analytics_vars

Finished(r) == run[r].pc \in {"returned", "raised"}

(***************************************************************************)
(* PatternDetectionAnalytics.detect_phantom_partnerships.  The tables the   *)
(* query reads are an input of each call; a business is identified by its   *)
(* business number, as in the rows _store_verification_results writes.     *)
(***************************************************************************)
dedup_days == 30

indigenous_businesses == {[id |-> bn, business_number |-> bn] : bn \in BusinessNumbers}

EmploymentRecord(business, employees) ==
    [business_id |-> business, total_employees |-> employees]

Contract(business, value, award_date) ==
    [business_id |-> business, contract_value |-> value, award_date |-> award_date]

Ownership(business, effective_from) ==
    [business_id |-> business, effective_from |-> effective_from]

Tables(employment, contracts, ownership) ==
    [employment_records |-> employment, federal_contracts |-> contracts,
     ownership_structure |-> ownership]

(* Nothing suspicious; one employment record over the threshold; two employment
   records of one business over the threshold; two ownership changes of one
   business in the 90 days before a large contract. *)
DataSets ==
    {Tables(<<>>, <<>>, <<>>),
     Tables(<<EmploymentRecord(<<"1", "0">>, 1)>>,
            <<Contract(<<"1", "0">>, 600000, -10)>>, <<>>),
     Tables(<<EmploymentRecord(<<"1", "0">>, 1), EmploymentRecord(<<"1", "0">>, 2)>>,
            <<Contract(<<"1", "0">>, 700000, -10), Contract(<<"1", "0">>, 500000, -20)>>,
            <<>>),
     Tables(<<>>, <<Contract(<<"9", "0">>, 2000000, -10)>>,
            <<Ownership(<<"9", "0">>, -50), Ownership(<<"9", "0">>, -30)>>)}

RECURSIVE SumOf(_, _)
SumOf(indices, contracts) ==
    IF indices = {} THEN 0
    ELSE LET i == CHOOSE x \in indices : TRUE
         IN  contracts[i].contract_value + SumOf(indices \ {i}, contracts)

SuspiciousRow(b, pattern_type, confidence_score) ==
    [id |-> b.id, business_number |-> b.business_number,
     pattern_type |-> pattern_type, confidence_score |-> confidence_score]

(* Lines 556-571: one row for each employment record of the business. *)
HighRevenuePerEmployee(b, tables, date) ==
    LET fc == {i \in DOMAIN tables.federal_contracts :
                  /\ tables.federal_contracts[i].business_id = b.id
                  /\ tables.federal_contracts[i].award_date >= date - 2 * 365}
        total_contract_value == SumOf(fc, tables.federal_contracts)
    IN  IF fc = {} THEN 0
        ELSE Cardinality({i \in DOMAIN tables.employment_records :
                 LET er == tables.employment_records[i]
                 IN  /\ er.business_id = b.id
                     /\ er.total_employees # 0
                     /\ total_contract_value \div er.total_employees > 500000})

(* data_snapshot->>'physical_address': NULL when the snapshot has no such key. *)
JsonField(snapshot, key) ==
    IF key \in DOMAIN snapshot[2] THEN <<snapshot[2][key]>> ELSE None

(* Lines 576-591: one row for the business if it shares its CRA address with
   more than two other businesses. *)
SharedAddressSuspicious(b1) ==
    LET related == {b2 \in indigenous_businesses :
                       \E f1 \in federal_system_data, f2 \in federal_system_data :
                           /\ f1.business_id = b1.id /\ f1.system_code = "CRA"
                           /\ JsonField(f1.data_snapshot, "physical_address") # None
                           /\ JsonField(f1.data_snapshot, "physical_address")
                                  = JsonField(f2.data_snapshot, "physical_address")
                           /\ f1.business_id # f2.business_id
                           /\ f2.business_id = b2.id}
    IN  IF Cardinality(related) > 2 THEN 1 ELSE 0

(* Lines 596-608: one row for each (ownership change, contract) pair. *)
SuspiciousOwnershipTiming(b, tables) ==
    Cardinality({pair \in (DOMAIN tables.ownership_structure)
                          \X (DOMAIN tables.federal_contracts) :
        LET os == tables.ownership_structure[pair[1]]
            fc == tables.federal_contracts[pair[2]]
        IN  /\ os.business_id = b.id /\ fc.business_id = b.id
            /\ os.effective_from > fc.award_date - 90
            /\ os.effective_from < fc.award_date
            /\ fc.contract_value > 1000000})

(* The CTE of lines 554-609, UNION ALL of the three patterns: a bag of rows. *)
suspicious_patterns(tables, date) ==
    LET Count(row) ==
            LET b == [id |-> row.id, business_number |-> row.business_number]
            IN  CASE row.pattern_type = "high_revenue_per_employee" ->
                         HighRevenuePerEmployee(b, tables, date)
                  [] row.pattern_type = "shared_address_suspicious" ->
                         SharedAddressSuspicious(b)
                  [] row.pattern_type = "suspicious_ownership_timing" ->
                         SuspiciousOwnershipTiming(b, tables)
        candidates ==
            {SuspiciousRow(b, "high_revenue_per_employee", 80) : b \in indigenous_businesses}
            \cup {SuspiciousRow(b, "shared_address_suspicious", 90) : b \in indigenous_businesses}
            \cup {SuspiciousRow(b, "suspicious_ownership_timing", 70) : b \in indigenous_businesses}
    IN  [row \in {c \in candidates : Count(c) > 0} |-> Count(row)]

(* The default of the detected_at column, which the INSERT does not set. *)
DetectedAtDefault == today

DetectionRow(row) ==
    [pattern_type |-> row.pattern_type,
     pattern_name |-> <<row.pattern_type, "_", row.business_number>>,
     confidence_score |-> row.confidence_score,
     primary_business_id |-> row.id,
     evidence_summary |-> <<"Automated detection: ", row.pattern_type>>,
     detection_algorithm |-> "multi_system_analysis",
     algorithm_version |-> "1.0",
     detected_at |-> DetectedAtDefault]

(* Lines 624-629, evaluated on the rows the statement sees. *)
NotExists(row, visible, date) ==
    ~\E pd \in BagToSet(visible) :
        /\ pd.primary_business_id = row.id
        /\ pd.pattern_type = row.pattern_type
        /\ pd.detected_at > date - dedup_days

(* Lines 610-629: the rows the INSERT ... SELECT adds, a bag. *)
Inserted(patterns, visible, date) ==
    LET kept == {row \in BagToSet(patterns) : NotExists(row, visible, date)}
    IN  [detection \in {DetectionRow(row) : row \in kept} |->
            LET row == CHOOSE r \in kept : DetectionRow(r) = detection
            IN  patterns[row]]

(* Lines 635-639: the rows detected in the last 24 hours. *)
RecentDetections(table, date) ==
    LET recent == {pd \in BagToSet(table) : pd.detected_at >= date - 1}
    IN  [pd \in recent |-> table[pd]]

(***************************************************************************)
(* db.execute(query) of line 632.  The statement reads the tables as they  *)
(* are when it starts (ExecuteStarts) and its rows are added when it ends  *)
(* (ExecuteEnds): rows another statement adds in between are not seen by   *)
(* its NOT EXISTS.  The fetch of line 635 follows.                         *)
(***************************************************************************)
ExecuteStarts(b, tables) ==
    /\ detect[b].pc = "idle"
    /\ detect' = [detect EXCEPT ![b] =
           [pc |-> "executing", date |-> today,
            suspicious_patterns |-> suspicious_patterns(tables, today),
            snapshot |-> pattern_detections, result |-> EmptyBag]]
    /\ UNCHANGED <<today, pattern_detections>>
    /\ UNCHANGED integrator_vars

ExecuteEnds(b) ==
    /\ detect[b].pc = "executing"
    /\ pattern_detections' =
           pattern_detections (+) Inserted(detect[b].suspicious_patterns,
                                           detect[b].snapshot, detect[b].date)
    /\ detect' = [detect EXCEPT ![b].pc = "done",
                                ![b].result = RecentDetections(pattern_detections', today)]
    /\ UNCHANGED today
    /\ UNCHANGED integrator_vars

(* The scheduler's days pass between the batch runs. *)
NextDay ==
    /\ today < MaxDays * DayStep
    /\ today' = today + DayStep
    /\ UNCHANGED <<pattern_detections, detect>>
    /\ UNCHANGED integrator_vars

(***************************************************************************)
(* Spec: calls of verify that follow one another on one integrator, within *)
(* one reading of the clock, with a database that answers.                 *)
(***************************************************************************)
Sequential(r) == r \in {1, 2} /\ (r = 2 => Finished(1))

StoreAll(r) ==
    /\ run[r].pc = "store"
    /\ Store(r, Len(run[r].verification_results.systems_checked))

Next ==
    \/ \E r \in RunIds, business_number \in BusinessNumbers :
           Sequential(r) /\ StartRun(r, business_number)
    \/ \E r \in RunIds, system \in DOMAIN endpoints :
           \E data \in Responses(system) : FetchReturns(r, system, data, TRUE, TRUE)
    \/ \E r \in RunIds, system \in DOMAIN endpoints, error \in AdapterErrors :
           FetchRaises(r, system, error, TRUE)
    \/ \E r \in RunIds : Process(r)
    \/ \E r \in RunIds : StoreAll(r)

Spec == Init /\ [][Next]_vars

(***************************************************************************)
(* SpecFaults: one call of verify against a database whose db.execute may  *)
(* raise, MaxDbFaults times at most.                                       *)
(***************************************************************************)
DbOutcomes(calls) ==
    {outcome \in [1..calls -> BOOLEAN] :
        /\ Cardinality({i \in 1..calls : ~outcome[i]}) <= MaxDbFaults - db_faults
        /\ \A i \in 1..calls : ~outcome[i] => \A j \in 1..(i - 1) : ~outcome[j]}

NextFaults ==
    \/ \E business_number \in BusinessNumbers : StartRun(1, business_number)
    \/ \E system \in DOMAIN endpoints, db \in DbOutcomes(2) :
           \E data \in Responses(system) : FetchReturns(1, system, data, db[1], db[2])
    \/ \E system \in DOMAIN endpoints, error \in AdapterErrors :
           \E db \in DbOutcomes(1) : FetchRaises(1, system, error, db[1])
    \/ Process(1)
    \/ \E written \in 0..5 :
           /\ run[1].pc = "store"
           /\ written < Len(run[1].verification_results.systems_checked)
                  => db_faults < MaxDbFaults
           /\ Store(1, written)

SpecFaults == Init /\ [][NextFaults]_vars

(***************************************************************************)
(* SpecTimed: calls of _verify_with_system that overlap on one integrator  *)
(* while the clock advances.                                               *)
(***************************************************************************)
TimedSystems == {"CRA", "ISED"}

NextTimed ==
    \/ \E r \in RunIds, business_number \in BusinessNumbers, system \in TimedSystems :
           CallVerifyWithSystem(r, business_number, system)
    \/ \E r \in RunIds, system \in TimedSystems :
           \E data \in Responses(system) : FetchReturns(r, system, data, TRUE, TRUE)
    \/ \E r \in RunIds, system \in TimedSystems, error \in AdapterErrors :
           FetchRaises(r, system, error, TRUE)
    \/ Tick

SpecTimed == Init /\ [][NextTimed]_vars

(***************************************************************************)
(* SpecScore: _calculate_verification_score applied to result dicts with   *)
(* any number of systems checked and up to MaxFlags red flags.             *)
(***************************************************************************)
AllValues == <<"cra", "ised", "isc", "pspc", "on_onbis">>

SomeFlags(n) == [i \in 1..n |-> <<"red flag">>]

InitScore ==
    /\ now = 0
    /\ cache = <<>>
    /\ integration_logs = EmptyBag
    /\ federal_system_data = {}
    /\ db_faults = 0
    /\ today = 0
    /\ pattern_detections = EmptyBag
    /\ detect = [b \in BatchIds |-> IdleBatch]
    /\ \E checked \in 0..Len(AllValues), flags \in 0..MaxFlags :
           run = [r \in RunIds |->
                     IF r = 1
                     THEN [IdleRun EXCEPT
                              !.pc = "score",
                              !.verification_results =
                                  [business_number |-> <<>>,
                                   verification_timestamp |-> isoformat(now),
                                   systems_checked |-> SubSeq(AllValues, 1, checked),
                                   consolidated_data |-> <<>>,
                                   red_flags |-> SomeFlags(flags),
                                   verification_score |-> 0]]
                     ELSE IdleRun]

(* Lines 136-139. *)
Score(r) ==
    /\ run[r].pc = "score"
    /\ run' = [run EXCEPT ![r].pc = "scored",
                          ![r].verification_results.verification_score =
                              _calculate_verification_score(run[r].verification_results)]
    /\ UNCHANGED <<now, cache, integration_logs, federal_system_data, db_faults>>
    /\ UNCHANGED analytics_vars

NextScore == \E r \in RunIds : Score(r)

SpecScore == InitScore /\ [][NextScore]_vars


(***************************************************************************)
(* SpecRules: one call of verify over answers that agree, contradict each  *)
(* other or miss fields, for the rules of _check_data_inconsistencies.     *)
(* A registry that does not know the identifier answers with a body that   *)
(* has none of the fields: every data.get of the adapter gives None.       *)
(***************************************************************************)
NotFoundAnswer == _verify_cra(None, None)

RuleResponses(system) ==
    CASE system = "CRA" ->
            {_verify_cra(<<"active">>, MainSt), _verify_cra(<<"inactive">>, MainSt),
             NotFoundAnswer}
      [] system = "ISED" ->
            {_verify_ised(<<"active">>, MainStUpper, <<"d1", "d2", "d3">>),
             _verify_ised(<<"dissolved">>, OakSt, <<"d1", "d2", "d3">>),
             _verify_ised(<<"dissolved">>, MainStUpper, <<"d1", "d2", "d3">>),
             _verify_ised(<<"active">>, None, <<"d1", "d2", "d3">>)}
      [] system = "ISC" ->
            {_verify_isc(<<51>>, <<"d1">>), _verify_isc(<<50>>, <<"d1">>),
             _verify_isc(<<51>>, <<"d1", "d2">>), _verify_isc(None, <<"d1">>)}
      [] system = "PSPC" -> {_verify_pspc(<<"registered">>)}
      [] system = "ON_ONBIS" ->
            {_verify_provincial(system, <<"inactive">>),
             _verify_provincial(system, <<"active">>)}
      [] system = "QC_REQ" -> {_verify_provincial(system, <<"immatriculée">>)}

NextRules ==
    \/ \E business_number \in BusinessNumbers : StartRun(1, business_number)
    \/ \E system \in DOMAIN endpoints :
           \E data \in RuleResponses(system) : FetchReturns(1, system, data, TRUE, TRUE)
    \/ \E system \in DOMAIN endpoints, error \in AdapterErrors :
           FetchRaises(1, system, error, TRUE)
    \/ Process(1)
    \/ StoreAll(1)

SpecRules == Init /\ [][NextRules]_vars

(***************************************************************************)
(* SpecCalls: calls of _verify_with_system, for a system with a configured *)
(* endpoint and for one without, within one reading of the clock.          *)
(***************************************************************************)
CallSystems == {"CRA", "BC_REG"}

NextCalls ==
    \/ \E r \in RunIds, business_number \in BusinessNumbers, system \in CallSystems :
           CallVerifyWithSystem(r, business_number, system)
    \/ \E r \in RunIds, system \in CallSystems :
           /\ system \in DOMAIN endpoints
           /\ \E data \in Responses(system) : FetchReturns(r, system, data, TRUE, TRUE)
    \/ \E r \in RunIds, system \in CallSystems, error \in AdapterErrors :
           FetchRaises(r, system, error, TRUE)

SpecCalls == Init /\ [][NextCalls]_vars


(***************************************************************************)
(* SpecDetect: batch runs of detect_phantom_partnerships that follow one   *)
(* another.  SpecDetectOverlap: batch runs that overlap in time.           *)
(***************************************************************************)
NoBatchExecuting == \A b \in BatchIds : detect[b].pc # "executing"

NextDetect ==
    \/ \E b \in BatchIds, tables \in DataSets :
           NoBatchExecuting /\ ExecuteStarts(b, tables)
    \/ \E b \in BatchIds : ExecuteEnds(b)
    \/ NextDay

SpecDetect == Init /\ [][NextDetect]_vars

OverlapIds == {1, 2}

NextDetectOverlap ==
    \/ \E b \in OverlapIds, tables \in DataSets : ExecuteStarts(b, tables)
    \/ \E b \in OverlapIds : ExecuteEnds(b)
    \/ NextDay

SpecDetectOverlap == Init /\ [][NextDetectOverlap]_vars

(***************************************************************************)
(* SpecSelect: verify called with identifiers of any form, made of the     *)
(* characters _determine_relevant_systems tells apart, up to MaxIdLen.     *)
(***************************************************************************)
IdChars == {"1", "3", "9"}

Identifiers == UNION {[1..n -> IdChars] : n \in 0..MaxIdLen}

NextSelect ==
    \E r \in {1, 2}, business_number \in Identifiers : StartRun(r, business_number)

SpecSelect == Init /\ [][NextSelect]_vars

(***************************************************************************)
(* Vocabulary of the properties.                                           *)
(***************************************************************************)
Selected(r) == DOMAIN run[r].tasks

Succeeded(r) == {system \in Selected(r) : run[r].tasks[system].kind = "ok"}

Failed(r) == {system \in Selected(r) : run[r].tasks[system].kind = "exception"}

(* The loop of lines 121-134 ran to its end: the result dict is complete. *)
Processed(r) ==
    \/ run[r].pc \in {"store", "returned"}
    \/ run[r].pc = "raised" /\ run[r].exception = "DatabaseError"

Results(r) == run[r].verification_results

(* C1: when k selected systems fail and m succeed (fetched or served from the
   cache), systems_checked has exactly m elements, consolidated_data has exactly
   m entries, one for each system that succeeded and none for any other. *)
C1_CheckedAndConsolidatedAreTheSucceeded ==
    \A r \in RunIds : Processed(r) =>
        /\ Len(Results(r).systems_checked) = Cardinality(Succeeded(r))
        /\ Range(Results(r).systems_checked) = {SystemValue(system) : system \in Succeeded(r)}
        /\ Cardinality(DOMAIN Results(r).consolidated_data) = Cardinality(Succeeded(r))
        /\ DOMAIN Results(r).consolidated_data =
               {run[r].tasks[system].data["system"] : system \in Succeeded(r)}
        /\ DOMAIN Results(r).consolidated_data \subseteq Selected(r) \ Failed(r)

C1_Witness ==
    \E r \in RunIds :
        /\ run[r].pc = "returned"
        /\ Cardinality(Failed(r)) >= 2
        /\ \E system \in Succeeded(r) : run[r].tasks[system].from_cache
        /\ \E system \in Succeeded(r) : ~run[r].tasks[system].from_cache

(* C2: when the calls of a non-empty proper subset of the selected systems
   raise, verify returns (it does not raise) a result that holds the data of
   every system that succeeded. *)
C2_PartialFailureStillReturns ==
    \A r \in RunIds :
        (Finished(r) /\ Failed(r) # {} /\ Succeeded(r) # {}) =>
            /\ run[r].pc = "returned"
            /\ \A system \in Succeeded(r) :
                   run[r].tasks[system].data["system"] \in DOMAIN Results(r).consolidated_data

(* C3: when every selected system fails, verify returns a result with empty
   systems_checked, score 0 and a red flag saying that no system was reachable. *)
IsAdapterFailureFlag(flag) == flag[1] = "Failed to verify with "

IsInconsistencyFlag(flag) ==
    flag[1] \in {"Inconsistent addresses between CRA and ISED records",
                 "Business active with CRA but ",
                 "Majority Indigenous ownership but minority Indigenous directors"}

IsNoSystemsReachableFlag(flag) == ~IsAdapterFailureFlag(flag) /\ ~IsInconsistencyFlag(flag)

C3_AllFailedGivesNoSystemsReachable ==
    \A r \in RunIds :
        (Finished(r) /\ Selected(r) # {} /\ Succeeded(r) = {}) =>
            /\ run[r].pc = "returned"
            /\ Results(r).systems_checked = <<>>
            /\ Results(r).verification_score = 0
            /\ \E i \in DOMAIN Results(r).red_flags :
                   IsNoSystemsReachableFlag(Results(r).red_flags[i])

(* C4: when a write to the database raises while the adapters themselves
   succeeded, verify still returns, with those systems in systems_checked. *)
AdapterSucceeded(task) == task.kind = "ok" \/ task.stored

C4_PersistenceFailureNotFatal ==
    \A r \in RunIds :
        (/\ Finished(r) /\ db_faults > 0
         /\ run[r].exception # "TypeError"
         /\ \A system \in Selected(r) : AdapterSucceeded(run[r].tasks[system])) =>
            /\ run[r].pc = "returned"
            /\ \A system \in Selected(r) :
                   SystemValue(system) \in Range(Results(r).systems_checked)

(* C5: a call made while the entry of its key is younger than cache_ttl issues
   no network call and returns the cached data; a call made with no entry, or at
   or after the expiry of the entry, issues exactly one network call. *)
C5_HitWithinTtlElseOneNetworkCall ==
    [][\A r \in RunIds :
          /\ (run[r].pc = "idle" /\ run'[r].pc # "idle") =>
                \A system \in DOMAIN run'[r].tasks :
                    LET task == run'[r].tasks[system]
                        key == <<SystemValue(system), run'[r].business_number>>
                    IN  IF key \in DOMAIN cache /\ now - cache[key].cached_time < cache_ttl
                        THEN /\ task.kind = "ok"
                             /\ task.data = cache[key].cached_data
                             /\ task.network_calls = 0
                        ELSE /\ task.kind = "pending"
                             /\ task.network_calls = 1
          /\ run[r].pc # "idle" =>
                \A system \in DOMAIN run[r].tasks :
                    run'[r].tasks[system].network_calls = run[r].tasks[system].network_calls
      ]_vars

(* A call served from an entry one tick old, and a call sent to the network
   because the entry of its key has reached cache_ttl. *)
C5_Witness ==
    \E hit \in RunIds, miss \in RunIds, system \in DOMAIN endpoints :
        /\ system \in DOMAIN run[hit].tasks /\ system \in DOMAIN run[miss].tasks
        /\ run[hit].business_number = run[miss].business_number
        /\ run[hit].tasks[system].from_cache
        /\ run[hit].tasks[system].network_calls = 0
        /\ run[miss].tasks[system].kind = "pending"
        /\ run[miss].tasks[system].network_calls = 1
        /\ CacheKey(system, run[miss].business_number) \in DOMAIN cache
        /\ now - cache[CacheKey(system, run[miss].business_number)].cached_time >= cache_ttl

(* C6: whatever the interleaving of the calls, a call is served from the cache
   only out of an entry whose timestamp is less than cache_ttl in the past. *)
ServedFromCache(r, system) ==
    system \in DOMAIN run[r].tasks /\ run[r].tasks[system].from_cache

C6_NeverServedPastTtl ==
    [][\A r \in RunIds, system \in DOMAIN endpoints :
          (~ServedFromCache(r, system) /\ ServedFromCache(r, system)') =>
              LET key == <<SystemValue(system), run'[r].business_number>>
              IN  /\ key \in DOMAIN cache
                  /\ now - cache[key].cached_time < cache_ttl
      ]_vars

(* Two calls racing on the same expired key: both were sent to the network. *)
C6_Witness ==
    \E a \in RunIds, b \in RunIds, system \in DOMAIN endpoints :
        /\ a # b
        /\ system \in DOMAIN run[a].tasks /\ system \in DOMAIN run[b].tasks
        /\ run[a].business_number = run[b].business_number
        /\ run[a].tasks[system].kind = "pending"
        /\ run[b].tasks[system].kind = "pending"
        /\ CacheKey(system, run[a].business_number) \in DOMAIN cache
        /\ now - cache[CacheKey(system, run[a].business_number)].cached_time >= cache_ttl

(* C7: a call that ends in failure (its system is reported as failed and is not
   in systems_checked) has not written the cache entry of its key. *)
C7_FailuresNeverCached ==
    \A r \in RunIds : \A system \in Failed(r) : ~run[r].tasks[system].stored

(* C8: the score lies in [0, 1] (0..100 hundredths) and one more red flag, with
   the same systems_checked, never raises it. *)
C8_ScoreBoundedAndMonotone ==
    \A r \in RunIds : run[r].pc = "scored" =>
        /\ Results(r).verification_score \in 0..100
        /\ _calculate_verification_score(
               [Results(r) EXCEPT !.red_flags = Append(@, <<"red flag">>)])
               <= Results(r).verification_score

C8_Witness ==
    \E r \in RunIds :
        /\ run[r].pc = "scored"
        /\ Len(Results(r).red_flags) >= 2
        /\ Len(Results(r).systems_checked) = 5
        /\ Results(r).verification_score \in 1..99

(* C9: the score is 1.0 less 0.10 for each selected system that was not reached
   and 0.15 for each red flag, clamped to [0, 1]; reaching more systems adds
   nothing, so the score never exceeds 1.0 - 0.15 * (number of red flags). *)
C9_ScoreIsPenaltiesOnly ==
    \A r \in RunIds : Processed(r) =>
        LET unreachable == Len(run[r].systems_to_check) - Len(Results(r).systems_checked)
            flags == Len(Results(r).red_flags)
        IN  /\ Results(r).verification_score =
                   Max(0, Min(100, 100 - 10 * unreachable - 15 * flags))
            /\ Results(r).verification_score <= Max(0, 100 - 15 * flags)

(* C10: the result of a run (systems_checked, consolidated_data, red_flags and
   score) is the one fixed by what each system answered, taken in the order of
   systems_to_check, whatever the order in which the calls completed. *)
Answer(task) == [kind |-> task.kind, data |-> task.data, error |-> task.error,
                 from_cache |-> FALSE, network_calls |-> 0, stored |-> FALSE]

ResultOfAnswers(r) ==
    LET answers == [system \in Selected(r) |-> Answer(run[r].tasks[system])]
        empty == [Results(r) EXCEPT !.systems_checked = <<>>,
                                    !.consolidated_data = <<>>,
                                    !.red_flags = <<>>,
                                    !.verification_score = 0]
        processed == ProcessResults(1, run[r].systems_to_check, answers, empty).results
    IN  [processed EXCEPT !.verification_score = _calculate_verification_score(processed)]

C10_ResultIndependentOfCompletionOrder ==
    \A r \in RunIds : run[r].pc \in {"store", "returned"} =>
        Results(r) = ResultOfAnswers(r)

(* A returned run with red flags where a system late in systems_to_check was
   served from the cache, so completed before CRA, fetched from the network. *)
C10_Witness ==
    \E r \in RunIds :
        /\ run[r].pc = "returned"
        /\ "CRA" \in Succeeded(r) /\ ~run[r].tasks["CRA"].from_cache
        /\ "ISED" \in Succeeded(r) /\ run[r].tasks["ISED"].from_cache
        /\ \E i \in DOMAIN Results(r).red_flags :
               Results(r).red_flags[i][1] = "Inconsistent addresses between CRA and ISED records"

HasFlag(r, text) ==
    \E i \in DOMAIN Results(r).red_flags : Results(r).red_flags[i][1] = text

AnswerOf(r, system) == run[r].tasks[system].data

(* C11: a run has the address-mismatch flag if and only if CRA and ISED both
   answered, both report an address, and the two normalized addresses differ;
   it never has it when CRA or ISED is absent from the run's record. *)
C11_AddressFlagIffBothPresentAndDiffer ==
    \A r \in RunIds : Processed(r) =>
        (HasFlag(r, "Inconsistent addresses between CRA and ISED records")
         <=> /\ "CRA" \in Succeeded(r) /\ "ISED" \in Succeeded(r)
             /\ AnswerOf(r, "CRA").physical_address # None
             /\ AnswerOf(r, "ISED").registered_office # None
             /\ _normalize_address(AnswerOf(r, "CRA").physical_address)
                    # _normalize_address(AnswerOf(r, "ISED").registered_office))

(* A returned run with the flag, where CRA and ISED report different streets. *)
C11_Witness ==
    \E r \in RunIds :
        /\ run[r].pc = "returned"
        /\ HasFlag(r, "Inconsistent addresses between CRA and ISED records")
        /\ AnswerOf(r, "CRA").physical_address = MainSt
        /\ AnswerOf(r, "ISED").registered_office = OakSt

(* The status a system's answer carries, under whichever name it uses. *)
StatusOf(data) ==
    Or(Get(data, "business_status", None),
       Or(Get(data, "corporate_status", None), Get(data, "statut", None)))

IsStatusFlag(flag) == flag[1] = "Business active with CRA but "

(* C12: whenever one system of the run's record reports the entity active and
   another reports it dissolved or inactive, whichever of the two reports which,
   the result has a status-mismatch flag. *)
C12_StatusFlagIsSymmetric ==
    \A r \in RunIds : Processed(r) =>
        ((\E a \in Succeeded(r), b \in Succeeded(r) :
              /\ a # b
              /\ StatusOf(AnswerOf(r, a)) = <<"active">>
              /\ StatusOf(AnswerOf(r, b)) \in {<<"dissolved">>, <<"inactive">>})
         => \E i \in DOMAIN Results(r).red_flags : IsStatusFlag(Results(r).red_flags[i]))

IsOwnershipFlag(flag) ==
    flag[1] = "Majority Indigenous ownership but minority Indigenous directors"

IsAddressFlag(flag) == flag[1] = "Inconsistent addresses between CRA and ISED records"

(* C13: the ownership/director flag is raised exactly when ISC and ISED both
   answered, ISC reports a percentage of at least 50, and fewer than half of
   ISED's directors are among ISC's verified owners (so also at exactly 50). *)
C13_OwnershipFlagFromFiftyPercent ==
    \A r \in RunIds : Processed(r) =>
        ((\E i \in DOMAIN Results(r).red_flags : IsOwnershipFlag(Results(r).red_flags[i]))
         <=> /\ "ISC" \in Succeeded(r) /\ "ISED" \in Succeeded(r)
             /\ AnswerOf(r, "ISC").indigenous_ownership_percentage # None
             /\ AnswerOf(r, "ISC").indigenous_ownership_percentage[1] >= 50
             /\ 2 * Cardinality(Range(AnswerOf(r, "ISC").verified_owners)
                                \cap Range(AnswerOf(r, "ISED").directors))
                    < Cardinality(Range(AnswerOf(r, "ISED").directors)))

(* C14: a consistency flag is raised only when every system its rule refers to
   answered in this run: the address flag needs CRA and ISED, a status flag
   needs CRA and the system it names, the ownership flag needs ISC and ISED. *)
C14_RulesFireOnlyOnPresentSystems ==
    \A r \in RunIds : Processed(r) =>
        \A i \in DOMAIN Results(r).red_flags :
            LET flag == Results(r).red_flags[i]
            IN  /\ IsAddressFlag(flag) => {"CRA", "ISED"} \subseteq Succeeded(r)
                /\ IsStatusFlag(flag) => {"CRA", flag[4]} \subseteq Succeeded(r)
                /\ IsOwnershipFlag(flag) => {"ISC", "ISED"} \subseteq Succeeded(r)
                /\ IsInconsistencyFlag(flag) =>
                       DOMAIN Results(r).consolidated_data = Succeeded(r)

(* A returned run where CRA failed and ISED reports the entity dissolved at an
   address, ISC failed too, and the provincial registry reports it inactive. *)
C14_Witness ==
    \E r \in RunIds :
        /\ run[r].pc = "returned"
        /\ {"CRA", "ISC"} \subseteq Failed(r)
        /\ {"ISED", "ON_ONBIS"} \subseteq Succeeded(r)
        /\ AnswerOf(r, "ISED").corporate_status = <<"dissolved">>
        /\ AnswerOf(r, "ON_ONBIS").business_status = <<"inactive">>

(* C15: scenario A.  CRA reports the entity active and ISED reports it dissolved
   at the same address, the other selected systems answer without any further
   contradiction: the result has exactly one status flag, no address flag and
   score 0.85, also when a provincial system is selected and answers. *)
ScenarioA(r) ==
    /\ Selected(r) = Succeeded(r)
    /\ AnswerOf(r, "CRA") = _verify_cra(<<"active">>, MainSt)
    /\ AnswerOf(r, "ISED") = _verify_ised(<<"dissolved">>, MainStUpper, <<"d1", "d2", "d3">>)
    /\ AnswerOf(r, "ISC") = _verify_isc(<<51>>, <<"d1", "d2">>)
    /\ "ON_ONBIS" \in Selected(r) => AnswerOf(r, "ON_ONBIS").business_status = <<"active">>

C15_ScenarioA ==
    \A r \in RunIds : (run[r].pc = "returned" /\ ScenarioA(r)) =>
        /\ Cardinality({i \in DOMAIN Results(r).red_flags :
                           IsStatusFlag(Results(r).red_flags[i])}) = 1
        /\ ~\E i \in DOMAIN Results(r).red_flags : IsAddressFlag(Results(r).red_flags[i])
        /\ Results(r).verification_score = 100 - 15

(* C16: scenario C.  A system whose registry answers that it does not know the
   entity is left out of consolidated_data and is not recorded as a failure. *)
C16_NotFoundIsExcludedNotFailed ==
    \A r \in RunIds :
        (/\ Processed(r) /\ "CRA" \in Selected(r)
         /\ run[r].tasks["CRA"].kind = "ok"
         /\ AnswerOf(r, "CRA") = NotFoundAnswer) =>
            /\ "CRA" \notin DOMAIN Results(r).consolidated_data
            /\ ~\E i \in DOMAIN Results(r).red_flags :
                   /\ IsAdapterFailureFlag(Results(r).red_flags[i])
                   /\ Results(r).red_flags[i][2] = SystemValue("CRA")

(* C17: every red flag of a result is an address, status or ownership mismatch,
   a not-found or a no-systems-reachable flag: the failure of an adapter adds no
   red flag, and one failing system among four costs 0.10 of the score only. *)
C17_AdapterFailureIsNotARedFlag ==
    \A r \in RunIds : Processed(r) =>
        /\ \A i \in DOMAIN Results(r).red_flags :
               ~IsAdapterFailureFlag(Results(r).red_flags[i])
        /\ (Cardinality(Failed(r)) = 1 /\ Cardinality(Selected(r)) = 4
            /\ ~\E i \in DOMAIN Results(r).red_flags :
                   IsInconsistencyFlag(Results(r).red_flags[i]))
               => Results(r).verification_score = 100 - 10

RowKey(row) == <<row.business_id, row.system_code>>

(* C18: the snapshot table never holds two rows of one (identifier, system); the
   store step of a run writes one row for each system in systems_checked, which
   are the systems that answered, each once, and touches no row of a system that
   failed or of another identifier. *)
C18_OneUpsertPerCheckedSystem ==
    /\ [](\A a \in federal_system_data, b \in federal_system_data :
              RowKey(a) = RowKey(b) => a = b)
    /\ [][\A r \in RunIds : (run[r].pc = "store" /\ run'[r].pc = "returned") =>
              LET bn == run[r].business_number
                  checked == Results(r).systems_checked
                  emitted == Upserts(bn, Results(r))
              IN  /\ Len(emitted) = Cardinality(Succeeded(r))
                  /\ {RowKey(emitted[i]) : i \in DOMAIN emitted}
                         = {<<bn, SystemValue(system)>> : system \in Succeeded(r)}
                  /\ \A i \in DOMAIN emitted : emitted[i] \in federal_system_data'
                  /\ \A row \in federal_system_data' :
                         row \in federal_system_data \/ \E i \in DOMAIN emitted : row = emitted[i]
                  /\ \A row \in federal_system_data \ federal_system_data' :
                         RowKey(row) \in {<<bn, checked[i]>> : i \in DOMAIN checked}
                  /\ \A system \in Failed(r), row \in federal_system_data' :
                         RowKey(row) = <<bn, SystemValue(system)>> => row \in federal_system_data
         ]_vars

(* Two runs for one identifier have returned with different results, the second
   with a failed system: its upserts met the rows of the first. *)
C18_Witness ==
    /\ run[1].pc = "returned" /\ run[2].pc = "returned"
    /\ run[1].business_number = run[2].business_number
    /\ Failed(2) # {} /\ Succeeded(2) # {}
    /\ Results(1) # Results(2)
    /\ \E row \in federal_system_data :
           row.data_hash = sha256(json_dumps(Results(2)))

(* The calls of _verify_with_system for (business_number, system) that went past
   the cache and have ended. *)
Invocations(business_number, system) ==
    {r \in RunIds : /\ system \in DOMAIN run[r].tasks
                    /\ run[r].business_number = business_number
                    /\ run[r].tasks[system].kind # "pending"
                    /\ ~run[r].tasks[system].from_cache}

LogErrors == AdapterErrors \cup {"KeyError", "DatabaseError"}

RECURSIVE CopiesOfAll(_, _)
CopiesOfAll(rows, bag) ==
    IF rows = {} THEN 0
    ELSE LET row == CHOOSE x \in rows : TRUE
         IN  CopiesIn(row, bag) + CopiesOfAll(rows \ {row}, bag)

(* C19: every call that is not served from the cache leaves exactly one row in
   integration_logs, with success true and no error if it returned data, with
   success false and the error text if it failed, also when it failed before
   the adapter was reached; a call served from the cache leaves none. *)
C19_OneLogEntryPerInvocation ==
    \A business_number \in BusinessNumbers, system \in SystemCode :
        LET ended == Invocations(business_number, system)
            returned == {r \in ended : run[r].tasks[system].kind = "ok"}
            failed == {r \in ended : run[r].tasks[system].kind = "exception"}
        IN  /\ CopiesIn(LogRow(system, business_number, TRUE, ""), integration_logs)
                   = Cardinality(returned)
            /\ CopiesOfAll({LogRow(system, business_number, FALSE, error) : error \in LogErrors},
                           integration_logs) = Cardinality(failed)
            /\ \A error \in LogErrors :
                   CopiesIn(LogRow(system, business_number, FALSE, error), integration_logs)
                       = Cardinality({r \in failed : run[r].tasks[system].error = error})

(* C20: two runs for one identifier in which a system answered the same data
   store the same data_hash for that (identifier, system). *)
StoredHash(r, system) ==
    SnapshotRow(run[r].business_number, Results(r), SystemValue(system)).data_hash

C20_SameSnapshotSameHash ==
    \A a \in RunIds, b \in RunIds :
        (/\ run[a].pc = "returned" /\ run[b].pc = "returned"
         /\ run[a].business_number = run[b].business_number) =>
            \A system \in Succeeded(a) \cap Succeeded(b) :
                AnswerOf(a, system) = AnswerOf(b, system) =>
                    StoredHash(a, system) = StoredHash(b, system)

(***************************************************************************)
(* Vocabulary of the properties of detect_phantom_partnerships.            *)
(***************************************************************************)
Pairs == BusinessNumbers \X {"high_revenue_per_employee", "shared_address_suspicious",
                             "suspicious_ownership_timing"}

PairOf(pd) == <<pd.primary_business_id, pd.pattern_type>>

RECURSIVE CopiesOf(_, _)
CopiesOf(rows, bag) ==
    IF rows = {} THEN 0
    ELSE LET row == CHOOSE x \in rows : TRUE
         IN  bag[row] + CopiesOf(rows \ {row}, bag)

(* The number of rows of the pair in the table that were detected in the window. *)
RowsInWindow(pair, table, date) ==
    CopiesOf({pd \in BagToSet(table) :
                 PairOf(pd) = pair /\ pd.detected_at > date - dedup_days}, table)

(* The rows the statement of batch run b adds, or has added. *)
InsertedBy(b) ==
    Inserted(detect[b].suspicious_patterns, detect[b].snapshot, detect[b].date)

(* C21: after any sequence of batch runs that follow one another, whatever the
   data, pattern_detections holds at most one row per (business, pattern type)
   detected within the 30 days window, and a run adds no row for a pair that has
   one in the window already. *)
C21_OneRowPerPairInWindow ==
    /\ [](\A pair \in Pairs : RowsInWindow(pair, pattern_detections, today) <= 1)
    /\ [][\A b \in BatchIds : (detect[b].pc = "executing" /\ detect'[b].pc = "done") =>
              \A pair \in Pairs :
                  RowsInWindow(pair, pattern_detections, today) >= 1 =>
                      RowsInWindow(pair, pattern_detections', today)
                          = RowsInWindow(pair, pattern_detections, today)]_vars

(* C30: two batch runs that overlap in time (so run within one window of each
   other) never both add a row for the same (business, pattern type). *)
C30_OverlappingRunsInsertOnce ==
    \A a \in BatchIds, b \in BatchIds :
        (/\ a # b
         /\ detect[a].pc = "done" /\ detect[b].pc = "done"
         /\ detect[a].date - detect[b].date < dedup_days
         /\ detect[b].date - detect[a].date < dedup_days) =>
            {PairOf(pd) : pd \in BagToSet(InsertedBy(a))}
                \cap {PairOf(pd) : pd \in BagToSet(InsertedBy(b))} = {}

(* C22: the step that starts a run sends the call of every selected system
   that the cache does not serve, so no call waits for another to finish; the
   result is not touched while a call is outstanding, and merging starts only
   when every call has returned or failed. *)
C22_AllCallsIssuedThenAllAwaited ==
    [][\A r \in RunIds :
          /\ (run[r].pc = "idle" /\ run'[r].pc = "gather") =>
                /\ DOMAIN run'[r].tasks = Range(run'[r].systems_to_check)
                /\ \A system \in DOMAIN run'[r].tasks :
                       \/ run'[r].tasks[system].from_cache
                       \/ run'[r].tasks[system].network_calls = 1
          /\ (run[r].pc = "gather" /\ run'[r].pc = "gather") =>
                run'[r].verification_results = run[r].verification_results
          /\ (run[r].pc = "gather" /\ run'[r].pc # "gather") =>
                \A system \in DOMAIN run[r].tasks : run[r].tasks[system].kind # "pending"
      ]_vars

(* PSPC has answered while the calls of CRA, ISED and ISC are outstanding. *)
C22_Witness ==
    \E r \in RunIds :
        /\ run[r].pc = "gather"
        /\ run[r].tasks["PSPC"].kind = "ok" /\ ~run[r].tasks["PSPC"].from_cache
        /\ \A system \in {"CRA", "ISED", "ISC"} :
               /\ run[r].tasks[system].kind = "pending"
               /\ run[r].tasks[system].network_calls = 1

(* C23: for every identifier the selection is CRA, ISED, ISC, PSPC, then
   ON_ONBIS iff the identifier starts with '1', QC_REQ iff it starts with '3';
   never both, never a system without endpoint, never a system twice. *)
C23_SelectionByFirstCharacter ==
    \A r \in RunIds : run[r].pc = "gather" =>
        LET business_number == run[r].business_number
            systems == run[r].systems_to_check
        IN  /\ SubSeq(systems, 1, 4) = <<"CRA", "ISED", "ISC", "PSPC">>
            /\ Range(systems) \subseteq {"CRA", "ISED", "ISC", "PSPC", "ON_ONBIS", "QC_REQ"}
            /\ "ON_ONBIS" \in Range(systems)
                   <=> (Len(business_number) > 0 /\ business_number[1] = "1")
            /\ "QC_REQ" \in Range(systems)
                   <=> (Len(business_number) > 0 /\ business_number[1] = "3")
            /\ ~({"ON_ONBIS", "QC_REQ"} \subseteq Range(systems))
            /\ Range(systems) \subseteq DOMAIN endpoints
            /\ Cardinality(Range(systems)) = Len(systems)

(* Runs for an identifier that starts with '3' and holds a '1', and for the
   empty identifier. *)
C23_Witness ==
    /\ run[1].pc = "gather" /\ run[1].business_number = <<"3", "1">>
    /\ run[1].systems_to_check = <<"CRA", "ISED", "ISC", "PSPC", "QC_REQ">>
    /\ run[2].pc = "gather" /\ run[2].business_number = <<>>
    /\ Len(run[2].systems_to_check) = 4

(* A step of the run is due: an awaited call will end (with data or with an
   error), or the loop over the results or the store can run. *)
RunCanGoOn(r) ==
    \/ \E system \in DOMAIN run[r].tasks : Awaiting(r, system)
    \/ run[r].pc = "gather" /\ AllTasksDone(r)
    \/ run[r].pc = "store"

(* C24: every run eventually returns, given that every awaited adapter call
   ends and every db.execute returns: a run that has started either has returned
   its result or has a step due, also when a system fails in every run. *)
C24_EveryRunEventuallyReturns ==
    \A r \in RunIds : run[r].pc # "idle" => (run[r].pc = "returned" \/ RunCanGoOn(r))

(* C25: a run sends at most one network call per selected system, and a call
   that failed stays failed for the run: it is not sent again. *)
C25_AtMostOneCallNoRetry ==
    /\ [](\A r \in RunIds : \A system \in DOMAIN run[r].tasks :
              run[r].tasks[system].network_calls <= 1)
    /\ [][\A r \in RunIds : \A system \in DOMAIN run[r].tasks :
              run[r].tasks[system].kind = "exception" =>
                  /\ run'[r].tasks[system].kind = "exception"
                  /\ run'[r].tasks[system].network_calls = run[r].tasks[system].network_calls
         ]_vars

(* Two runs have returned in which the same system failed, one call each. *)
C25_Witness ==
    \E system \in DOMAIN endpoints :
        /\ run[1].pc = "returned" /\ run[2].pc = "returned"
        /\ run[1].business_number = run[2].business_number
        /\ system \in Failed(1) /\ system \in Failed(2)
        /\ run[1].tasks[system].network_calls = 1
        /\ run[2].tasks[system].network_calls = 1

(* C26: a fetch that returns data leaves in the cache exactly that data with
   the time of its caching; and among fetches of one key that overlap, the entry
   is never overwritten by the result of a fetch that started before the fetch
   whose result was there. *)
C26_CacheKeepsTheLatestFetch ==
    [][\A a \in RunIds : \A system \in DOMAIN run[a].tasks :
          (run[a].tasks[system].kind = "pending" /\ run'[a].tasks[system].kind = "ok") =>
              LET key == CacheKey(system, run[a].business_number)
              IN  /\ key \in DOMAIN cache'
                  /\ cache'[key] = [cached_data |-> run'[a].tasks[system].data,
                                    cached_time |-> now]
                  /\ \A b \in RunIds \ {a} :
                         (/\ system \in DOMAIN run[b].tasks
                          /\ run[b].business_number = run[a].business_number
                          /\ run[b].tasks[system].kind = "ok"
                          /\ ~run[b].tasks[system].from_cache) =>
                             run[a].tasks[system].started_at >= run[b].tasks[system].started_at
      ]_vars

(* C27: the data_snapshot written for a system in systems_checked is that
   system's section of the run's consolidated_data. *)
C27_SnapshotIsTheConsolidatedSection ==
    \A r \in RunIds : run[r].pc \in {"store", "returned"} =>
        \A system \in Succeeded(r) :
            \E i \in DOMAIN Upserts(run[r].business_number, Results(r)) :
                LET row == Upserts(run[r].business_number, Results(r))[i]
                IN  /\ row.system_code = SystemValue(system)
                    /\ row.data_snapshot =
                           json_dumps(Results(r).consolidated_data[AnswerOf(r, system).system])

(* C28: a contradiction between ISC and ISED is one red flag of the run,
   however many systems are merged after the two. *)
C28_OwnershipFlagCountedOnce ==
    \A r \in RunIds : Processed(r) =>
        Cardinality({i \in DOMAIN Results(r).red_flags :
                        IsOwnershipFlag(Results(r).red_flags[i])}) <= 1

(* C29: when ISC and ISED both answer and ISC's answer carries no ownership
   percentage, verify still returns a result, without the ownership flag. *)
C29_MissingPercentageIsNotFatal ==
    \A r \in RunIds :
        (/\ Finished(r)
         /\ "ISC" \in Succeeded(r) /\ "ISED" \in Succeeded(r)
         /\ AnswerOf(r, "ISC").indigenous_ownership_percentage = None) =>
            /\ run[r].pc = "returned"
            /\ ~\E i \in DOMAIN Results(r).red_flags : IsOwnershipFlag(Results(r).red_flags[i])

====
